---- MODULE Spec2Model ----
(***************************************************************************)
(* Collision phases of FGAme (FGAme/physics/broadphase.py): the sweep and  *)
(* prune broad phases BroadPhaseAABB / BroadPhaseCBB and the dispatching   *)
(* NarrowPhase.                                                            *)
(***************************************************************************)
EXTENDS Integers, Sequences, FiniteSets, TLC

\* ------------------------------------------------------------------------
\* Bounds of the model
\* ------------------------------------------------------------------------
\* number of bodies of the world handed to a broad phase
NumBodies == 3
\* sweep-axis coordinates range over 0..MaxCoord
MaxCoord == 2
\* vertical coordinates range over 0..MaxY
MaxY == 1
\* bounding radii range over 0..MaxRadius
MaxRadius == 1

BodyIds == 1..NumBodies

\* A body as BroadPhaseAABB.update reads it: xmin, xmax, the vertical extent
\* shadow_y projects, is_dynamic() and is_sleep.
AABBBodies ==
    {b \in [xmin: 0..MaxCoord, xmax: 0..MaxCoord, ymin: 0..MaxY, ymax: 0..MaxY,
            dynamic: BOOLEAN, is_sleep: BOOLEAN] :
        b.xmin <= b.xmax /\ b.ymin <= b.ymax}

\* A body as BroadPhaseCBB.update reads it: pos, cbb_radius, is_dynamic(),
\* is_sleep.
CBBBodies ==
    [pos: (0..MaxCoord) \X (0..MaxY), cbb_radius: 0..MaxRadius,
     dynamic: BOOLEAN, is_sleep: BOOLEAN]

\* number of bodies handed to the narrow phase
NumShapes == 2
\* longest list of candidate pairs handed to NarrowPhase.update
MaxPairs == 2

ShapeIds == 1..NumShapes
\* concrete body types the dispatch registry is keyed by
Types == {"Circle", "Poly"}
TypePairs == Types \X Types
\* contact normals a test routine may report; Absent stands for "no collision"
Normals == {<<1, 0>>, <<0, -1>>}
Absent == <<0, 0>>
\* ordered pairs of distinct bodies
ShapePairs == {p \in ShapeIds \X ShapeIds : p[1] # p[2]}

VARIABLES
    kind,       \* class of the broad phase object: "AABB" or "CBB"
    body,       \* the bodies of the world, by identity
    L,          \* argument of the last update call
    data,       \* self._data of the broad phase
    cmps,       \* evaluations of "B_left > A_right" in the last update call
    updated,    \* update has been called on the broad phase
    typeof,     \* type(X) of the bodies handed to the narrow phase
    spec_out,   \* what the specific test routine of (type X, type Y) reports on (X, Y)
    gen_out,    \* what get_collision_generic reports on (X, Y)
    registry,   \* the dispatch table get_collision[...]
    world,      \* self.world of the narrow phase
    ndata,      \* self._data of the narrow phase
    broad_cols, \* argument of the last NarrowPhase.update call
    op,         \* last operation on the narrow phase
    trace,      \* the get_collision calls of the last operation, in order
    raised,     \* exception the last operation let out to its caller
    arg,        \* the list the caller handed to the last call, as the call left it
    ret,        \* value the last call returned
    meth,       \* method of the last call on a phase
    thr,        \* the threads inside update of one broad phase: position and locals
    hist        \* whether two calls overlapped in time, and the call that began last

bvars == <<kind, body, L, data, cmps, updated>>
nvars == <<typeof, spec_out, gen_out, registry, world, ndata, broad_cols, op, trace, raised>>
pvars == <<arg, ret, meth>>
cvars == <<thr, hist>>
vars == <<bvars, nvars, pvars, cvars>>

\* ------------------------------------------------------------------------
\* Helpers
\* ------------------------------------------------------------------------
Min(a, b) == IF a <= b THEN a ELSE b
Max(a, b) == IF a >= b THEN a ELSE b

\* mathtools.shadow_y: length of the overlap of the vertical projections
shadow_y(A, B) == Min(A.ymax, B.ymax) - Max(A.ymin, B.ymin)

is_dynamic(A) == A.dynamic

\* sort keys of the two variants
\* variant of KeyAABB: the list sorted by the right end of the boxes
KeyAABB_xmax(A) == A.xmax
KeyAABB(A) == A.xmin
KeyCBB(A) == A.pos[1] - A.cbb_radius

Key(k, A) == IF k = "AABB" THEN KeyAABB(A) ELSE KeyCBB(A)

\* Insert id x into the sorted sequence s after every element whose key is
\* not greater (sorted() is stable).
RECURSIVE Insert(_, _, _, _)
Insert(k, bs, s, x) ==
    IF s = <<>> THEN <<x>>
    ELSE IF Key(k, bs[Head(s)]) <= Key(k, bs[x])
         THEN <<Head(s)>> \o Insert(k, bs, Tail(s), x)
         ELSE <<x>> \o s

\* sorted(L, key=...)
RECURSIVE sorted(_, _, _)
sorted(k, bs, l) ==
    IF l = <<>> THEN <<>>
    ELSE Insert(k, bs, sorted(k, bs, SubSeq(l, 1, Len(l) - 1)), l[Len(l)])

\* right end of the sweep interval of A, left end of the one of B
Right(k, A) == IF k = "AABB" THEN A.xmax ELSE A.pos[1] + A.cbb_radius
Left(k, B) == IF k = "AABB" THEN B.xmin ELSE B.pos[1] - B.cbb_radius

\* the bounding volumes of A and B do not touch (the pair is skipped)
NoOverlapAABB(A, B) == shadow_y(A, B) <= 0

\* (A.pos - B.pos).norm() > A_radius + B_radius, on squares
NoOverlapCBB(A, B) ==
    LET dx == A.pos[1] - B.pos[1]
        dy == A.pos[2] - B.pos[2]
        rs == A.cbb_radius + B.cbb_radius
    IN  dx * dx + dy * dy > rs * rs

NoOverlap(k, A, B) == IF k = "AABB" THEN NoOverlapAABB(A, B) ELSE NoOverlapCBB(A, B)

\* variant of Filtered: the sleep test left out
FilteredDynamicOnly(A, B) == ~is_dynamic(A) /\ ~is_dynamic(B)

\* both bodies static/kinematic, or both asleep
Filtered(A, B) ==
    \/ ~is_dynamic(A) /\ ~is_dynamic(B)
    \/ A.is_sleep /\ B.is_sleep

\* variant of Inner: no break, every later body is tested
RECURSIVE InnerNoBreak(_, _, _, _, _, _)
InnerNoBreak(k, bs, objects, i, j, acc) ==
    IF j > Len(objects) THEN acc
    ELSE LET A == bs[objects[i]]
             B == bs[objects[j]]
             seen == [acc EXCEPT !.cmps = @ + 1]
         IN  IF Left(k, B) > Right(k, A) \/ Filtered(A, B) \/ NoOverlap(k, A, B)
             THEN InnerNoBreak(k, bs, objects, i, j + 1, seen)
             ELSE InnerNoBreak(k, bs, objects, i, j + 1,
                        [seen EXCEPT !.data = Append(@, <<objects[i], objects[j]>>)])

\* The inner loop "for j in range(i + 1, len(objects))" from index j on, for
\* the body at index i. acc.data is self._data, acc.cmps counts the
\* evaluations of "B_left > A_right".
RECURSIVE Inner(_, _, _, _, _, _)
Inner(k, bs, objects, i, j, acc) ==
    IF j > Len(objects) THEN acc
    ELSE LET A == bs[objects[i]]
             B == bs[objects[j]]
             seen == [acc EXCEPT !.cmps = @ + 1]
         IN  IF Left(k, B) > Right(k, A) THEN seen
             ELSE IF Filtered(A, B) THEN Inner(k, bs, objects, i, j + 1, seen)
             ELSE IF NoOverlap(k, A, B) THEN Inner(k, bs, objects, i, j + 1, seen)
             ELSE Inner(k, bs, objects, i, j + 1,
                        [seen EXCEPT !.data = Append(@, <<objects[i], objects[j]>>)])

\* variant of Outer: the inner loop starts at the body itself
RECURSIVE OuterFromSelf(_, _, _, _, _)
OuterFromSelf(k, bs, objects, i, acc) ==
    IF i > Len(objects) THEN acc
    ELSE OuterFromSelf(k, bs, objects, i + 1, Inner(k, bs, objects, i, i, acc))

\* The outer loop "for i, A in enumerate(objects)" from index i on.
RECURSIVE Outer(_, _, _, _, _)
Outer(k, bs, objects, i, acc) ==
    IF i > Len(objects) THEN acc
    ELSE Outer(k, bs, objects, i + 1, Inner(k, bs, objects, i, i + 1, acc))

\* BroadPhaseAABB.update / BroadPhaseCBB.update on the list l of bodies
Sweep(k, bs, l) == Outer(k, bs, sorted(k, bs, l), 1, [data |-> <<>>, cmps |-> 0])

\* ------------------------------------------------------------------------
\* Narrow phase: contacts, test routines and the dispatch registry
\* ------------------------------------------------------------------------
\* the value "return" / "return None" hands back
None == [none |-> TRUE]

\* value a test routine leaves in the world field of the contact it builds
NoWorld == "unset"

Neg(n) == <<0 - n[1], 0 - n[2]>>

\* the contact a test routine builds for its arguments (X, Y)
Contact(X, Y, n) == [A |-> X, B |-> Y, normal |-> n, world |-> NoWorld]

\* Contact.swapped(): the same contact with roles and normal reversed
swapped(col) == [A |-> col.B, B |-> col.A, normal |-> Neg(col.normal), world |-> col.world]

\* entries of the dispatch table
NoEntry == [tag |-> "none"]
Test(key) == [tag |-> "test", key |-> key]
Generic == [tag |-> "generic"]
Inverse(direct) == [tag |-> "inverse", direct |-> direct]

\* result of a test routine whose outcome table is out, called on (X, Y)
Outcome(out, X, Y) ==
    IF out[<<X, Y>>] = Absent THEN None ELSE Contact(X, Y, out[<<X, Y>>])

\* get_collision_generic(A, B)
get_collision_generic(A, B) == Outcome(gen_out, A, B)

\* Call of the implementation impl on (X, Y). The wrapper "inverse" built by
\* NarrowPhase.get_collision calls direct(B, A) and swaps what it returns.
RECURSIVE Call(_, _, _)
Call(impl, X, Y) ==
    IF impl.tag = "test" THEN Outcome(spec_out, X, Y)
    ELSE IF impl.tag = "generic" THEN get_collision_generic(X, Y)
    ELSE LET col == Call(impl.direct, Y, X)
         IN  IF col # None THEN swapped(col) ELSE None

\* get_collision.get_implementation(tA, tB)
get_implementation(reg, tA, tB) == reg[<<tA, tB>>]

\* get_collision(X, Y) of FGAme.physics: dispatch on (type X, type Y); raises
\* CollisionError when the table has no entry for the ordered type pair.
get_collision(reg, X, Y) ==
    LET impl == reg[<<typeof[X], typeof[Y]>>]
    IN  IF impl.tag = "none"
        THEN [exc |-> "CollisionError", col |-> None]
        ELSE [exc |-> "none", col |-> Call(impl, X, Y)]

\* get_collision[tA, tB] = impl
Register(reg, tA, tB, impl) == [reg EXCEPT ![<<tA, tB>>] = impl]

\* what a call of NarrowPhase.get_collision leaves behind
Ret(col, reg, log, exc) == [col |-> col, reg |-> reg, log |-> log, exc |-> exc]

\* variant of OnDirect: a pair the direct test rejects goes on to the generic test
OnDirectThenGeneric(reg, A, B, first) ==
    IF first.col # None THEN Ret(first.col, reg, <<"direct">>, "none")
    ELSE Ret(get_collision_generic(A, B), reg, <<"direct", "generic">>, "none")

\* "try: return get_collision(A, B)": the direct test answered
OnDirect(reg, A, B, first) == Ret(first.col, reg, <<"direct">>, "none")

\* variant of OnReversedNone: a pair the reversed test rejects goes on to the
\* generic test
OnReversedNoneThenGeneric(reg, A, B) ==
    Ret(get_collision_generic(A, B), reg, <<"miss", "reversed", "generic">>, "none")

\* "if col is None: return": the reversed test rejects the pair
OnReversedNone(reg, A, B) == Ret(None, reg, <<"miss", "reversed">>, "none")

\* variant of Negated: the normal left as the reversed test reported it
NotNegated(col) == col

\* "col.normal *= -1"
Negated(col) == [col EXCEPT !.normal = Neg(@)]

\* variant of OnReversedHit: the wrapper is not registered
OnReversedHitNoRegister(reg, A, B, col) == Ret(col, reg, <<"miss", "reversed">>, "none")

\* variant of OnReversedHit: the wrapper is registered under both ordered keys
OnReversedHitBothKeys(reg, A, B, col) ==
    LET direct == get_implementation(reg, typeof[B], typeof[A])
        reg1 == Register(reg, typeof[A], typeof[B], Inverse(direct))
        reg2 == Register(reg1, typeof[B], typeof[A], Inverse(direct))
    IN  Ret(col, reg2, <<"miss", "reversed", "get_implementation">>, "none")

\* variant of OnReversedHit: once the wrapper is registered the pair is
\* resolved again through the dispatch table
OnReversedHitRetry(reg, A, B, col) ==
    LET direct == get_implementation(reg, typeof[B], typeof[A])
    IN  Ret(Call(Inverse(direct), A, B),
            Register(reg, typeof[A], typeof[B], Inverse(direct)),
            <<"miss", "reversed", "get_implementation", "direct">>, "none")

\* the else clause: build "inverse" over the implementation of (type B,
\* type A), register it for (type A, type B) and return the corrected contact
OnReversedHit(reg, A, B, col) ==
    LET direct == get_implementation(reg, typeof[B], typeof[A])
    IN  Ret(col, Register(reg, typeof[A], typeof[B], Inverse(direct)),
            <<"miss", "reversed", "get_implementation">>, "none")

\* variant of OnReversedMiss: the generic test is registered for (type A,
\* type B) only
OnReversedMissOneKey(reg, A, B) ==
    Ret(get_collision_generic(A, B), Register(reg, typeof[A], typeof[B], Generic),
        <<"miss", "miss", "generic">>, "none")

\* variant of OnReversedMiss: the second CollisionError is not caught
OnReversedMissRaise(reg, A, B) == Ret(None, reg, <<"miss", "miss">>, "CollisionError")

\* "except CollisionError": neither order is registered
OnReversedMiss(reg, A, B) ==
    LET reg1 == Register(reg, typeof[A], typeof[B], Generic)
        reg2 == Register(reg1, typeof[B], typeof[A], Generic)
    IN  Ret(get_collision_generic(A, B), reg2, <<"miss", "miss", "generic">>, "none")

\* NarrowPhase.get_collision(A, B) on the table reg
NarrowPhase_get_collision(reg, A, B) ==
    LET first == get_collision(reg, A, B)
    IN  IF first.exc = "none" THEN OnDirect(reg, A, B, first)
        ELSE LET second == get_collision(reg, B, A)
             IN  IF second.exc = "CollisionError" THEN OnReversedMiss(reg, A, B)
                 ELSE IF second.col = None THEN OnReversedNone(reg, A, B)
                 ELSE OnReversedHit(reg, A, B, Negated(second.col))

\* one entry of trace: the call get_collision(A, B) on the table "before"
Entry(A, B, before, r) ==
    [A |-> A, B |-> B, before |-> before, after |-> r.reg, col |-> r.col,
     log |-> r.log, exc |-> r.exc]

\* variant of WithWorld: the field is left as the test routine set it
WorldLeft(col, w) == col

\* "col.world = self.world"
WithWorld(col, w) == [col EXCEPT !.world = w]

\* The loop of NarrowPhase.update over broad_cols from index k on; acc.cols
\* is the list cols, acc.reg the dispatch table, acc.trace the calls made.
RECURSIVE UpdateLoop(_, _, _, _)
UpdateLoop(pairs, k, w, acc) ==
    IF k > Len(pairs) THEN acc
    ELSE LET A == pairs[k][1]
             B == pairs[k][2]
             r == NarrowPhase_get_collision(acc.reg, A, B)
             tr == Append(acc.trace, Entry(A, B, acc.reg, r))
         IN  IF r.exc # "none"
             THEN [acc EXCEPT !.reg = r.reg, !.trace = tr, !.exc = r.exc]
             ELSE UpdateLoop(pairs, k + 1, w,
                    [cols |-> IF r.col # None THEN Append(acc.cols, WithWorld(r.col, w))
                                               ELSE acc.cols,
                     reg |-> r.reg, trace |-> tr, exc |-> "none"])

\* NarrowPhase.update(broad_cols)
NarrowPhase_update(reg, pairs, w) ==
    UpdateLoop(pairs, 1, w, [cols |-> <<>>, reg |-> reg, trace |-> <<>>, exc |-> "none"])

\* ------------------------------------------------------------------------
\* Broad phase: state machine
\* ------------------------------------------------------------------------
\* lists of bodies handed to update
Inputs == {[i \in 1..n |-> i] : n \in 0..NumBodies}

\* data handed to the constructor of the phase
InitialData == {<<>>, <<<<1, 2>>>>}

\* the narrow phase as constructed, with an empty dispatch table
NarrowIdle ==
    /\ typeof = [x \in ShapeIds |-> "Circle"]
    /\ spec_out = [p \in ShapePairs |-> Absent]
    /\ gen_out = [p \in ShapePairs |-> Absent]
    /\ registry = [k \in TypePairs |-> NoEntry]
    /\ world = "world"
    /\ ndata = <<>>
    /\ broad_cols = <<>>
    /\ op = "init"
    /\ trace = <<>>
    /\ raised = "none"

\* the broad phase as constructed, with no bodies
BroadIdle ==
    /\ kind = "AABB"
    /\ body = <<>>
    /\ L = <<>>
    /\ data = <<>>
    /\ cmps = 0
    /\ updated = FALSE

\* threads that may call update on one phase object
Threads == {1, 2}

\* a thread outside update
Idle == [pc |-> "idle", L |-> <<>>, objects |-> <<>>, i |-> 0, j |-> 0, cmps |-> 0]

\* no thread has called update
NoThread ==
    /\ thr = [t \in Threads |-> Idle]
    /\ hist = [overlap |-> FALSE, later |-> 0]

\* no method has been called yet
NoCall ==
    /\ arg = <<>>
    /\ ret = None
    /\ meth = "__init__"

\* variant of Cleared: update appends to the list it held
Kept(d) == d

\* "self._data[:] = []" of the broad phases, "self._data = cols = []" of the
\* narrow phase: what update keeps of the list it held
Cleared(d) == <<>>

InitBroad ==
    /\ kind \in {"AABB", "CBB"}
    /\ body \in [BodyIds -> IF kind = "AABB" THEN AABBBodies ELSE CBBBodies]
    /\ L = <<>>
    /\ data \in InitialData
    /\ cmps = 0
    /\ updated = FALSE
    /\ NarrowIdle
    /\ NoCall
    /\ NoThread

\* the body of BroadPhaseAABB.update(l)
BroadPhaseAABB_update(l) ==
    /\ kind = "AABB"
    /\ L' = l
    /\ LET r == Sweep("AABB", body, l)
       IN  data' = Cleared(data) \o r.data /\ cmps' = r.cmps
    /\ updated' = TRUE
    /\ UNCHANGED <<kind, body, nvars, cvars>>

\* the body of BroadPhaseCBB.update(l)
BroadPhaseCBB_update(l) ==
    /\ kind = "CBB"
    /\ L' = l
    /\ LET r == Sweep("CBB", body, l)
       IN  data' = Cleared(data) \o r.data /\ cmps' = r.cmps
    /\ updated' = TRUE
    /\ UNCHANGED <<kind, body, nvars, cvars>>

\* a call phase.update(l) on a BroadPhaseAABB: sorted() builds a new list, so
\* the caller's list is as it was; the method returns nothing
UpdateAABB(l) ==
    /\ BroadPhaseAABB_update(l)
    /\ arg' = l
    /\ ret' = None
    /\ meth' = "update"

\* a call phase.update(l) on a BroadPhaseCBB
UpdateCBB(l) ==
    /\ BroadPhaseCBB_update(l)
    /\ arg' = l
    /\ ret' = None
    /\ meth' = "update"

NextBroad ==
    \/ \E l \in Inputs : UpdateAABB(l)
    \/ \E l \in Inputs : UpdateCBB(l)

SpecBroad == InitBroad /\ [][NextBroad]_vars

\* ------------------------------------------------------------------------
\* Narrow phase: state machine
\* ------------------------------------------------------------------------
\* lists of candidate pairs handed to NarrowPhase.update
RECURSIVE PairLists(_)
PairLists(n) ==
    IF n = 0 THEN {<<>>}
    ELSE PairLists(n - 1) \cup
         {Append(s, p) : s \in {t \in PairLists(n - 1) : Len(t) = n - 1}, p \in ShapePairs}

InitNarrow ==
    /\ typeof \in [ShapeIds -> Types]
    /\ spec_out \in [ShapePairs -> Normals \cup {Absent}]
    /\ gen_out \in [ShapePairs -> Normals \cup {Absent}]
    /\ \E S \in SUBSET TypePairs :
          registry = [k \in TypePairs |-> IF k \in S THEN Test(k) ELSE NoEntry]
    /\ world = "world"
    /\ ndata = <<>>
    /\ broad_cols = <<>>
    /\ op = "init"
    /\ trace = <<>>
    /\ raised = "none"
    /\ BroadIdle
    /\ NoCall
    /\ NoThread

\* a call phase.get_collision(A, B)
GetCollision(A, B) ==
    LET r == NarrowPhase_get_collision(registry, A, B)
    IN  /\ registry' = r.reg
        /\ trace' = <<Entry(A, B, registry, r)>>
        /\ op' = "get_collision"
        /\ raised' = r.exc
        /\ ret' = r.col
        /\ meth' = "get_collision"
        /\ UNCHANGED <<typeof, spec_out, gen_out, world, ndata, broad_cols, bvars, arg, cvars>>

\* the body of NarrowPhase.update(pairs)
NarrowPhase_update_body(pairs) ==
    LET r == NarrowPhase_update(registry, pairs, world)
    IN  /\ registry' = r.reg
        /\ ndata' = Cleared(ndata) \o r.cols
        /\ broad_cols' = pairs
        /\ trace' = r.trace
        /\ op' = "update"
        /\ raised' = r.exc
        /\ UNCHANGED <<typeof, spec_out, gen_out, world, bvars, cvars>>

\* a call phase.update(pairs): broad_cols is only iterated
UpdateNarrow(pairs) ==
    /\ NarrowPhase_update_body(pairs)
    /\ arg' = pairs
    /\ ret' = None
    /\ meth' = "update"

NextNarrow ==
    \/ \E p \in ShapePairs : GetCollision(p[1], p[2])
    \/ \E pairs \in PairLists(MaxPairs) : UpdateNarrow(pairs)

SpecNarrow == InitNarrow /\ [][NextNarrow]_vars

\* ------------------------------------------------------------------------
\* One phase object of any of the three classes: update, __call__, objects
\* and get_groups
\* ------------------------------------------------------------------------
\* "return self"
Self == [self |-> TRUE]

\* bodies of the world of a single BroadPhaseAABB: dynamic, awake, of full height
PhaseAABBBodies ==
    {b \in AABBBodies : b.dynamic /\ ~b.is_sleep /\ b.ymin = 0 /\ b.ymax = MaxY}

\* bodies of the world of a single BroadPhaseCBB: dynamic, awake, on the axis
PhaseCBBBodies ==
    {b \in CBBBodies : b.dynamic /\ ~b.is_sleep /\ b.pos[2] = 0}

\* what the test routines of the world of a single NarrowPhase report
PhaseOutcomes == {<<1, 0>>, Absent}

\* a contact read as "A, B": it iterates as its two bodies
UnpackContact(col) == <<col.A, col.B>>

\* one element of self._data read as "A, B" by "for A, B in self._data": a
\* pair of a broad phase or a contact of the narrow phase
Unpack(p) == IF kind = "Narrow" THEN UnpackContact(p) ELSE <<p[1], p[2]>>

\* variant of objects: only the first member of each pair is collected
RECURSIVE objects_first(_, _, _)
objects_first(d, k, objs) ==
    IF k > Len(d) THEN objs
    ELSE objects_first(d, k + 1, objs \cup {Unpack(d[k])[1]})

\* AbstractCollisionPhase.objects(): the loop over self._data from index k on,
\* objs being the set built so far
RECURSIVE objects(_, _, _)
objects(d, k, objs) ==
    IF k > Len(d) THEN objs
    ELSE objects(d, k + 1, (objs \cup {Unpack(d[k])[1]}) \cup {Unpack(d[k])[2]})

\* self._data of the phase object
Held == IF kind = "Narrow" THEN ndata ELSE data

\* AbstractCollisionPhase.__init__(data): a phase holding a copy of data
AbstractCollisionPhase_init(d) == <<>> \o d

\* variant of call_objects: update is handed an empty list
call_nothing(l) == <<>>

\* "self.update(objects)" of __call__: the argument handed on to update
call_objects(l) == l

\* "if cols is None: cols = self": the contacts get_groups works on
GivenCols(cols) == IF cols = None THEN ndata ELSE cols.list

\* NarrowPhase.get_groups(cols): builds a BroadPhaseAABB holding cols, prints
\* it and falls off the end of the function
get_groups(cols) ==
    LET meta_cols == AbstractCollisionPhase_init(GivenCols(cols))
    IN  None

\* arguments of get_groups: nothing, or a list of contacts
GroupArgs ==
    {None} \cup {[list |-> <<>>]}
           \cup {[list |-> <<Contact(p[1], p[2], n)>>] : p \in ShapePairs, n \in PhaseOutcomes \ {Absent}}

InitPhases ==
    \/ /\ kind \in {"AABB", "CBB"}
       /\ body \in [BodyIds -> IF kind = "AABB" THEN PhaseAABBBodies ELSE PhaseCBBBodies]
       /\ L = <<>>
       /\ data \in InitialData
       /\ cmps = 0
       /\ updated = FALSE
       /\ NarrowIdle
       /\ NoCall
       /\ NoThread
    \/ /\ kind = "Narrow"
       /\ body = <<>>
       /\ L = <<>>
       /\ data = <<>>
       /\ cmps = 0
       /\ updated = FALSE
       /\ typeof \in [ShapeIds -> Types]
       /\ spec_out \in [ShapePairs -> PhaseOutcomes]
       /\ gen_out \in [ShapePairs -> PhaseOutcomes]
       /\ \E S \in SUBSET TypePairs :
             registry = [k \in TypePairs |-> IF k \in S THEN Test(k) ELSE NoEntry]
       /\ world = "world"
       /\ ndata = <<>>
       /\ broad_cols = <<>>
       /\ op = "init"
       /\ trace = <<>>
       /\ raised = "none"
       /\ NoCall
       /\ NoThread

\* a call phase.update(pairs) on a NarrowPhase
PhaseUpdateNarrow(pairs) ==
    /\ kind = "Narrow"
    /\ UpdateNarrow(pairs)

\* a call phase(l) on a BroadPhaseAABB
CallAABB(l) ==
    /\ BroadPhaseAABB_update(call_objects(l))
    /\ arg' = l
    /\ ret' = Self
    /\ meth' = "__call__"

\* a call phase(l) on a BroadPhaseCBB
CallCBB(l) ==
    /\ BroadPhaseCBB_update(call_objects(l))
    /\ arg' = l
    /\ ret' = Self
    /\ meth' = "__call__"

\* a call phase(pairs) on a NarrowPhase
CallNarrow(pairs) ==
    /\ kind = "Narrow"
    /\ NarrowPhase_update_body(call_objects(pairs))
    /\ arg' = pairs
    /\ ret' = Self
    /\ meth' = "__call__"

\* a call phase.objects()
Objects ==
    /\ ret' = [objs |-> objects(Held, 1, {})]
    /\ meth' = "objects"
    /\ UNCHANGED <<bvars, nvars, arg, cvars>>

\* a call phase.get_groups(cols) on a NarrowPhase
GetGroups(cols) ==
    /\ kind = "Narrow"
    /\ arg' = GivenCols(cols)
    /\ ret' = get_groups(cols)
    /\ meth' = "get_groups"
    /\ UNCHANGED <<bvars, nvars, cvars>>

NextPhases ==
    \/ \E l \in Inputs : UpdateAABB(l)
    \/ \E l \in Inputs : UpdateCBB(l)
    \/ \E pairs \in PairLists(MaxPairs) : PhaseUpdateNarrow(pairs)
    \/ \E l \in Inputs : CallAABB(l)
    \/ \E l \in Inputs : CallCBB(l)
    \/ \E pairs \in PairLists(MaxPairs) : CallNarrow(pairs)
    \/ Objects
    \/ \E cols \in GroupArgs : GetGroups(cols)

SpecPhases == InitPhases /\ [][NextPhases]_vars

\* ------------------------------------------------------------------------
\* Two threads calling update on one BroadPhaseAABB, statement by statement
\* ------------------------------------------------------------------------
\* lists of bodies the threads hand to update
ThreadInputs == {l \in Inputs : Len(l) >= 2}

\* thread t is inside update
Running(t) == thr[t].pc \notin {"idle", "done"}

InitThreads ==
    /\ kind = "AABB"
    /\ body \in [BodyIds -> PhaseAABBBodies]
    /\ L = <<>>
    /\ data = <<>>
    /\ cmps = 0
    /\ updated = FALSE
    /\ NarrowIdle
    /\ NoCall
    /\ NoThread

\* thread t enters update(l): "col_idx = 0" and "objects = sorted(L, ...)"
Enter(t, l) ==
    /\ thr[t].pc = "idle"
    /\ thr' = [thr EXCEPT ![t] = [pc |-> "clear", L |-> l, objects |-> sorted(kind, body, l),
                                  i |-> 0, j |-> 0, cmps |-> 0]]
    /\ hist' = [overlap |-> hist.overlap \/ (\E u \in Threads \ {t} : Running(u)),
                later |-> t]
    /\ L' = l
    /\ arg' = l
    /\ meth' = "update"
    /\ updated' = TRUE
    /\ UNCHANGED <<kind, body, data, cmps, nvars, ret>>

\* thread t runs "self._data[:] = []" and reaches the outer loop
Clear(t) ==
    /\ thr[t].pc = "clear"
    /\ data' = Cleared(data)
    /\ thr' = [thr EXCEPT ![t].pc = "outer", ![t].i = 1]
    /\ UNCHANGED <<kind, body, L, cmps, updated, nvars, pvars, hist>>

\* thread t at "for i, A in enumerate(objects)": the next body, or the end of
\* the method
OuterStep(t) ==
    /\ thr[t].pc = "outer"
    /\ IF thr[t].i > Len(thr[t].objects)
       THEN /\ thr' = [thr EXCEPT ![t].pc = "done"]
            /\ cmps' = thr[t].cmps
            /\ ret' = None
       ELSE /\ thr' = [thr EXCEPT ![t].pc = "inner", ![t].j = thr[t].i + 1]
            /\ UNCHANGED <<cmps, ret>>
    /\ UNCHANGED <<kind, body, L, data, updated, nvars, arg, meth, hist>>

\* thread t at "for j in range(i + 1, len(objects))": one pass over the tests
\* of the loop body, up to the append
InnerStep(t) ==
    /\ thr[t].pc = "inner"
    /\ LET s == thr[t]
       IN  IF s.j > Len(s.objects)
           THEN thr' = [thr EXCEPT ![t].pc = "outer", ![t].i = s.i + 1]
           ELSE LET A == body[s.objects[s.i]]
                    B == body[s.objects[s.j]]
                IN  IF Left(kind, B) > Right(kind, A)
                    THEN thr' = [thr EXCEPT ![t].pc = "outer", ![t].i = s.i + 1,
                                            ![t].cmps = s.cmps + 1]
                    ELSE IF Filtered(A, B) \/ NoOverlap(kind, A, B)
                    THEN thr' = [thr EXCEPT ![t].j = s.j + 1, ![t].cmps = s.cmps + 1]
                    ELSE thr' = [thr EXCEPT ![t].pc = "append", ![t].cmps = s.cmps + 1]
    /\ UNCHANGED <<bvars, nvars, pvars, hist>>

\* thread t runs "self._data.append(AABBContact(A, B))"
AppendStep(t) ==
    /\ thr[t].pc = "append"
    /\ data' = Append(data, <<thr[t].objects[thr[t].i], thr[t].objects[thr[t].j]>>)
    /\ thr' = [thr EXCEPT ![t].pc = "inner", ![t].j = thr[t].j + 1]
    /\ UNCHANGED <<kind, body, L, cmps, updated, nvars, pvars, hist>>

NextThreads ==
    \/ \E t \in Threads, l \in ThreadInputs : Enter(t, l)
    \/ \E t \in Threads : Clear(t)
    \/ \E t \in Threads : OuterStep(t)
    \/ \E t \in Threads : InnerStep(t)
    \/ \E t \in Threads : AppendStep(t)

SpecThreads == InitThreads /\ [][NextThreads]_vars

\* ------------------------------------------------------------------------
\* Properties of the broad phase
\* ------------------------------------------------------------------------
\* the unordered pairs held in a result list
PairSet(d) == {{d[i][1], d[i][2]} : i \in 1..Len(d)}

\* the bodies of a list
Elems(l) == {l[i] : i \in 1..Len(l)}

\* x intervals of the pair, ordered by xmin, satisfy not (B.xmin > A.xmax)
XTouch(A, B) ==
    IF A.xmin <= B.xmin THEN ~(B.xmin > A.xmax) ELSE ~(A.xmin > B.xmax)

\* bounding volumes overlap under the test of the variant
VolumesOverlap(k, A, B) ==
    IF k = "AABB"
    THEN XTouch(A, B) /\ shadow_y(A, B) > 0
    ELSE LET dx == A.pos[1] - B.pos[1]
             dy == A.pos[2] - B.pos[2]
             rs == A.cbb_radius + B.cbb_radius
         IN  dx * dx + dy * dy <= rs * rs

BothStatic(A, B) == ~A.dynamic /\ ~B.dynamic
BothAsleep(A, B) == A.is_sleep /\ B.is_sleep

\* scan of all unordered pairs of the list l
BruteForce(k, bs, l) ==
    {{a, b} : <<a, b>> \in
        {q \in Elems(l) \X Elems(l) :
            /\ q[1] # q[2]
            /\ VolumesOverlap(k, bs[q[1]], bs[q[2]])
            /\ ~BothStatic(bs[q[1]], bs[q[2]])
            /\ ~BothAsleep(bs[q[1]], bs[q[2]])}}

\* C1: sweep completeness. After update(L) of either variant the unordered
\* pairs of the result list are exactly the pairs of L that a brute-force
\* scan finds overlapping, not both non-dynamic and not both asleep.
C1_SweepCompleteness == updated => PairSet(data) = BruteForce(kind, body, L)

\* C1 witness: in sorted order the first body overlaps the second but the
\* pair is filtered (continue), the scan goes on to find the first with the
\* third, and the scan of the second breaks at the third.
C1_Witness ==
    /\ updated
    /\ Len(L) = 3
    /\ LET s == sorted(kind, body, L)
       IN  /\ VolumesOverlap(kind, body[s[1]], body[s[2]])
           /\ Filtered(body[s[1]], body[s[2]])
           /\ {s[1], s[3]} \in PairSet(data)
           /\ Left(kind, body[s[3]]) > Right(kind, body[s[2]])

\* C2: sweep exclusion. After any update no held pair has both bodies
\* non-dynamic and no held pair has both bodies asleep.
C2_SweepExclusion ==
    updated =>
        \A i \in 1..Len(data) :
            /\ ~BothStatic(body[data[i][1]], body[data[i][2]])
            /\ ~BothAsleep(body[data[i][1]], body[data[i][2]])

\* C2 witness: the list holds a pair, while an overlapping pair of static
\* bodies and an overlapping pair of sleeping bodies were handed in.
C2_Witness ==
    /\ updated
    /\ data # <<>>
    /\ \E a, b \in Elems(L) :
          a # b /\ VolumesOverlap(kind, body[a], body[b]) /\ BothStatic(body[a], body[b])
    /\ \E a, b \in Elems(L) :
          a # b /\ VolumesOverlap(kind, body[a], body[b]) /\ BothAsleep(body[a], body[b])

\* ------------------------------------------------------------------------
\* Properties of the narrow phase
\* ------------------------------------------------------------------------
Registered(impl) == impl.tag # "none"

\* entries of the table, as the call recorded in e found them, for the
\* ordered type pair of (A, B) and for the reversed one
DirectOf(e) == e.before[<<typeof[e.A], typeof[e.B]>>]
ReversedOf(e) == e.before[<<typeof[e.B], typeof[e.A]>>]

\* the call recorded in e missed the direct entry and found the reversed one
Detour(e) == ~Registered(DirectOf(e)) /\ Registered(ReversedOf(e))

\* what the reversed test reports for (B, A)
ReversedResult(e) == Call(ReversedOf(e), e.B, e.A)

\* indices of the calls of the last operation that returned a contact
Hits == {k \in 1..Len(trace) : trace[k].col # None}

\* C3: narrow-phase soundness. After update every held contact has the
\* bodies of an input pair and the normal a test reported for it (direct,
\* reversed with the normal negated, or generic), one contact per call that
\* returned one; and a pair whose registered direct test reports no collision
\* gets no contact and no other test.
C3_NarrowSoundness ==
    op = "update" =>
        /\ Len(ndata) = Cardinality(Hits)
        /\ \A i \in 1..Len(ndata) :
              \E k \in 1..Len(broad_cols) :
                 LET e == trace[k]
                     c == ndata[i]
                 IN  /\ <<e.A, e.B>> = broad_cols[k]
                     /\ {c.A, c.B} = {e.A, e.B}
                     /\ \/ /\ Registered(DirectOf(e))
                           /\ Call(DirectOf(e), e.A, e.B) # None
                           /\ c.normal = Call(DirectOf(e), e.A, e.B).normal
                        \/ /\ Detour(e)
                           /\ ReversedResult(e) # None
                           /\ c.normal = Neg(ReversedResult(e).normal)
                        \/ /\ ~Registered(DirectOf(e))
                           /\ ~Registered(ReversedOf(e))
                           /\ gen_out[<<e.A, e.B>>] # Absent
                           /\ c.normal = gen_out[<<e.A, e.B>>]
        /\ \A k \in 1..Len(trace) :
              LET e == trace[k]
              IN  (Registered(DirectOf(e)) /\ Call(DirectOf(e), e.A, e.B) = None)
                     => (e.col = None /\ e.log = <<"direct">>)

\* C3 witness: update dropped a pair its direct test rejected although the
\* reversed test and the generic test both report a collision for it, and
\* kept a contact for another pair.
C3_Witness ==
    /\ op = "update"
    /\ ndata # <<>>
    /\ \E k \in 1..Len(trace) :
          LET e == trace[k]
          IN  /\ DirectOf(e).tag = "test"
              /\ e.col = None
              /\ Registered(ReversedOf(e))
              /\ ReversedResult(e) # None
              /\ gen_out[<<e.A, e.B>>] # Absent

\* C4: normal sign convention. A call resolved through a test registered
\* only for the reversed type pair, which reports normal n for (B, A),
\* returns a contact of normal -n, on the first resolution and on later ones
\* through the registered wrapper.
C4_NormalSign ==
    \A k \in 1..Len(trace) :
        LET e == trace[k]
        IN  /\ (Detour(e) /\ ReversedOf(e).tag = "test" /\ ReversedResult(e) # None)
                  => (e.col # None /\ e.col.normal = Neg(ReversedResult(e).normal))
            /\ (DirectOf(e).tag = "inverse" /\ Call(DirectOf(e).direct, e.B, e.A) # None)
                  => (e.col # None
                      /\ e.col.normal = Neg(Call(DirectOf(e).direct, e.B, e.A).normal))

\* C4 witness: one update resolved the same pair twice, first by the detour
\* and then through the wrapper, with a collision both times.
C4_Witness ==
    /\ Len(trace) = 2
    /\ Detour(trace[1])
    /\ trace[1].col # None
    /\ DirectOf(trace[2]).tag = "inverse"
    /\ trace[2].col # None
    /\ <<trace[2].A, trace[2].B>> = <<trace[1].A, trace[1].B>>

\* the ordered type pair of the call recorded in e
KeyOf(e) == <<typeof[e.A], typeof[e.B]>>

\* what the wrapper "inverse" over the implementation direct must return for
\* (X, Y): the contact of direct(Y, X), swapped
SwappedResult(direct, X, Y) ==
    IF Call(direct, Y, X) = None THEN None ELSE swapped(Call(direct, Y, X))

\* C5: dispatch caching idempotence, in the case where the first call
\* returned a contact. A call get_collision(A, B) that follows a call
\* get_collision(A, B) resolved by the detour or by the generic registration
\* hits the direct entry and returns the contact the first call returned.
C5_CachingIdempotence ==
    [][(/\ op = "get_collision"
        /\ op' = "get_collision"
        /\ <<trace'[1].A, trace'[1].B>> = <<trace[1].A, trace[1].B>>
        /\ trace[1].log # <<"direct">>
        /\ trace[1].col # None)
          => (trace'[1].log = <<"direct">> /\ trace'[1].col = trace[1].col)]_vars

\* C6 as claimed: whenever a call misses the direct entry and finds the
\* reversed one, the table it leaves holds the wrapper for (type A, type B).
C6_Original ==
    \A k \in 1..Len(trace) :
        LET e == trace[k]
        IN  Detour(e) => e.after[KeyOf(e)] = Inverse(ReversedOf(e))

\* C6: derived-entry registration. Whenever a call misses the direct entry,
\* finds the reversed one and the reversed test reports a collision, the
\* table it leaves holds for (type A, type B) a wrapper that calls the
\* reversed implementation with the arguments swapped and returns the
\* swapped contact, and the next resolution of a pair of these types hits
\* the direct entry.
C6_DerivedEntry ==
    \A k \in 1..Len(trace) :
        LET e == trace[k]
        IN  (Detour(e) /\ ReversedResult(e) # None) =>
               /\ e.after[KeyOf(e)].tag = "inverse"
               /\ \A p \in ShapePairs :
                     <<typeof[p[1]], typeof[p[2]]>> = KeyOf(e) =>
                        LET r == NarrowPhase_get_collision(e.after, p[1], p[2])
                        IN  /\ r.log = <<"direct">>
                            /\ r.col = SwappedResult(ReversedOf(e), p[1], p[2])

\* C6 witness: a detour that found a collision, for two different types.
C6_Witness ==
    \E k \in 1..Len(trace) :
        /\ Detour(trace[k])
        /\ ReversedResult(trace[k]) # None
        /\ typeof[trace[k].A] # typeof[trace[k].B]

\* C7 as claimed: a detour that finds a collision returns it with the normal
\* negated and leaves the dispatch table as it was.
C7_Original ==
    \A k \in 1..Len(trace) :
        LET e == trace[k]
        IN  (Detour(e) /\ ReversedResult(e) # None) =>
               /\ e.col # None
               /\ e.col.normal = Neg(ReversedResult(e).normal)
               /\ e.after = e.before

\* C7: a detour that finds a collision returns it with the normal negated
\* and changes the dispatch table in one place only: (type A, type B), which
\* had no entry, now holds the wrapper over the reversed implementation.
C7_DetourHitFrame ==
    \A k \in 1..Len(trace) :
        LET e == trace[k]
        IN  (Detour(e) /\ ReversedResult(e) # None) =>
               /\ e.col # None
               /\ e.col.normal = Neg(ReversedResult(e).normal)
               /\ \A key \in TypePairs :
                     e.after[key] = IF key = KeyOf(e) THEN Inverse(ReversedOf(e))
                                                      ELSE e.before[key]

\* C7 witness: a detour that found a collision while the table held entries
\* for other type pairs too.
C7_Witness ==
    \E k \in 1..Len(trace) :
        /\ Detour(trace[k])
        /\ trace[k].col # None
        /\ \E key \in TypePairs :
              key \notin {KeyOf(trace[k]), <<typeof[trace[k].B], typeof[trace[k].A]>>}
              /\ Registered(trace[k].before[key])

\* C8: a detour whose reversed test reports no collision returns "no
\* collision", invokes no other test and leaves the dispatch table as it was.
C8_DetourNoneFinal ==
    \A k \in 1..Len(trace) :
        LET e == trace[k]
        IN  (Detour(e) /\ ReversedResult(e) = None) =>
               /\ e.col = None
               /\ e.log = <<"miss", "reversed">>
               /\ e.after = e.before

\* C8 witness: the reversed test rejected a pair for which the generic test
\* reports a collision.
C8_Witness ==
    \E k \in 1..Len(trace) :
        /\ Detour(trace[k])
        /\ ReversedResult(trace[k]) = None
        /\ gen_out[<<trace[k].A, trace[k].B>>] # Absent

\* a call that finds neither order registered registers the generic test
\* under both keys and returns its result on (A, B)
C9_Registers ==
    \A k \in 1..Len(trace) :
        LET e == trace[k]
        IN  (~Registered(DirectOf(e)) /\ ~Registered(ReversedOf(e))) =>
               /\ \A key \in TypePairs :
                     e.after[key] =
                        IF key \in {KeyOf(e), <<typeof[e.B], typeof[e.A]>>}
                        THEN Generic ELSE e.before[key]
               /\ e.col = Outcome(gen_out, e.A, e.B)
               /\ e.log = <<"miss", "miss", "generic">>

\* a call that finds the generic test registered for its type pair hits the
\* direct entry and returns the generic result
C9_Later ==
    \A k \in 1..Len(trace) :
        LET e == trace[k]
        IN  DirectOf(e).tag = "generic" =>
               /\ e.log = <<"direct">>
               /\ e.col = Outcome(gen_out, e.A, e.B)
               /\ e.after = e.before

\* a registered generic entry stays, and every call starts from the table
\* the previous one left
C9_Keeps ==
    /\ \A key \in TypePairs : registry[key].tag = "generic" => registry'[key].tag = "generic"
    /\ trace' # <<>> => trace'[1].before = registry
    /\ \A k \in 1..Len(trace') : k > 1 => trace'[k].before = trace'[k - 1].after

\* C9: generic fallback registration. A call that finds no entry in either
\* order registers the generic test under both ordered keys and returns its
\* result on (A, B); every later resolution of the two types, in either
\* order, hits the direct entry and returns the generic result.
C9_GenericFallback == [](C9_Registers /\ C9_Later) /\ [][C9_Keeps]_vars

\* C9 witness: one update registered the generic test for (A, B) of two
\* different types and then resolved (B, A) on the direct entry, with a
\* collision.
C9_Witness ==
    /\ Len(trace) = 2
    /\ trace[1].log = <<"miss", "miss", "generic">>
    /\ <<trace[2].A, trace[2].B>> = <<trace[1].B, trace[1].A>>
    /\ typeof[trace[1].A] # typeof[trace[1].B]
    /\ trace[2].log = <<"direct">>
    /\ trace[2].col # None

\* C10: no lookup miss escapes. No operation lets CollisionError out, and
\* update resolves every input pair, each to a held contact or to a drop.
C10_NoLookupMissEscapes ==
    /\ raised = "none"
    /\ \A k \in 1..Len(trace) : trace[k].exc = "none"
    /\ op = "update" =>
          /\ Len(trace) = Len(broad_cols)
          /\ \A k \in 1..Len(trace) : <<trace[k].A, trace[k].B>> = broad_cols[k]
          /\ Len(ndata) = Cardinality(Hits)

\* C10 witness: an update whose first pair missed both lookups and was
\* dropped, and whose second pair, the same bodies in the other order, was
\* kept.
C10_Witness ==
    /\ op = "update"
    /\ Len(trace) = 2
    /\ trace[1].log = <<"miss", "miss", "generic">>
    /\ trace[1].col = None
    /\ trace[2].col # None
    /\ Len(ndata) = 1

\* C11: world back-reference. After update every held contact has its world
\* field equal to the world of the narrow phase, whichever branch produced
\* it and whatever the test routine left in the field.
C11_WorldBackReference ==
    op = "update" => \A i \in 1..Len(ndata) : ndata[i].world = world

\* C11 witness: update holds two contacts, the first from the detour and the
\* second from the wrapper it registered; the test routine had left another
\* value than the world of the phase.
C11_Witness ==
    /\ op = "update"
    /\ Len(ndata) = 2
    /\ Len(trace) = 2
    /\ Detour(trace[1])
    /\ DirectOf(trace[2]).tag = "inverse"
    /\ NoWorld # world

\* ------------------------------------------------------------------------
\* More properties of the broad phase
\* ------------------------------------------------------------------------
\* C17: no pair twice. For a list of pairwise distinct bodies the result
\* list of one update holds each unordered pair at most once, in one order
\* only, and never a body with itself.
C17_NoPairTwice ==
    updated =>
        /\ \A i \in 1..Len(data) : data[i][1] # data[i][2]
        /\ \A i, j \in 1..Len(data) :
              i # j => {data[i][1], data[i][2]} # {data[j][1], data[j][2]}

\* C17 witness: three distinct bodies were handed in and all three pairs
\* are held.
C17_Witness ==
    /\ updated
    /\ Len(L) = 3
    /\ Cardinality(Elems(L)) = 3
    /\ Len(data) = 3

\* the sweep intervals of the list l are pairwise disjoint: in sorted order
\* each body starts after the previous one ends
DisjointExtents(k, bs, l) ==
    LET s == sorted(k, bs, l)
    IN  \A m \in 1..(Len(s) - 1) : Left(k, bs[s[m + 1]]) > Right(k, bs[s[m]])

\* C18: sweep pruning on disjoint extents. For a list of n bodies with
\* pairwise disjoint sweep intervals update returns no pair and evaluates
\* "B_left > A_right" at most n times: once for each body that has a
\* successor.
C18_DisjointPruning ==
    (updated /\ DisjointExtents(kind, body, L)) =>
        /\ data = <<>>
        /\ cmps <= Len(L)
        /\ Len(L) >= 1 => cmps = Len(L) - 1

\* C18 witness: three bodies with disjoint sweep intervals that are all
\* dynamic and awake and whose other extents would pass the overlap test.
C18_Witness ==
    /\ updated
    /\ Len(L) = 3
    /\ DisjointExtents(kind, body, L)
    /\ \A a, b \in Elems(L) :
          a # b => (~Filtered(body[a], body[b]) /\ ~NoOverlap(kind, body[a], body[b]))

\* ------------------------------------------------------------------------
\* More properties of the dispatch
\* ------------------------------------------------------------------------
\* number of events ev in the log of a call
Count(log, ev) == Cardinality({m \in 1..Len(log) : log[m] = ev})

\* C16: bounded dispatch. Every call get_collision(A, B) makes one direct
\* lookup; only if it misses, one reversed lookup; only if that misses too,
\* one invocation of the generic test; the else clause reads the reversed
\* implementation once with get_implementation. No lookup is made twice and
\* the call never resolves the pair again.
C16_BoundedDispatch ==
    \A k \in 1..Len(trace) :
        LET e == trace[k]
            log == e.log
        IN  /\ Len(log) >= 1
            /\ log[1] = IF Registered(DirectOf(e)) THEN "direct" ELSE "miss"
            /\ log[1] = "direct" => Len(log) = 1
            /\ log[1] = "miss" =>
                  /\ Len(log) >= 2
                  /\ log[2] = IF Registered(ReversedOf(e)) THEN "reversed" ELSE "miss"
                  /\ log[2] = "miss" => log = <<"miss", "miss", "generic">>
                  /\ log[2] = "reversed" =>
                        \A m \in 3..Len(log) : log[m] = "get_implementation"
            /\ Count(log, "direct") <= 1
            /\ Count(log, "reversed") <= 1
            /\ Count(log, "generic") <= 1
            /\ Count(log, "get_implementation") <= 1
            /\ Len(log) <= 3

\* C16 witness: one update made a call of each length: a detour that found
\* a collision, then a direct hit.
C16_Witness ==
    /\ Len(trace) = 2
    /\ Len(trace[1].log) = 3
    /\ trace[1].log[2] = "reversed"
    /\ trace[2].log = <<"direct">>

\* the reversed ordered type pair of the call recorded in e
RevKeyOf(e) == <<typeof[e.B], typeof[e.A]>>

\* a call keeps every entry it found and adds entries only under keys whose
\* lookup it missed; a direct hit changes nothing and consults nothing else
C20_Calls ==
    \A k \in 1..Len(trace) :
        LET e == trace[k]
        IN  /\ \A key \in TypePairs :
                  Registered(e.before[key]) => e.after[key] = e.before[key]
            /\ \A key \in TypePairs :
                  e.after[key] # e.before[key] =>
                     \/ key = KeyOf(e) /\ e.log[1] = "miss"
                     \/ key = RevKeyOf(e) /\ e.log[1] = "miss" /\ e.log[2] = "miss"
            /\ Registered(DirectOf(e)) => (e.after = e.before /\ e.log = <<"direct">>)

\* a step keeps every registered entry
C20_Step == \A key \in TypePairs : Registered(registry[key]) => registry'[key] = registry[key]

\* C20: registry monotonicity. No call removes or overwrites an entry of the
\* dispatch table; entries are added only under ordered type pairs whose
\* lookup missed in the same call; a call whose direct lookup succeeds
\* leaves the table unchanged and consults neither the reversed entry nor
\* the generic test.
C20_RegistryMonotone == [](C20_Calls) /\ [][C20_Step]_vars

\* C20 witness: one update added an entry with its first call and hit an
\* entry with its second, while the table held an entry for a third key.
C20_Witness ==
    /\ Len(trace) = 2
    /\ trace[1].after # trace[1].before
    /\ trace[2].log = <<"direct">>
    /\ \E key \in TypePairs :
          key \notin {KeyOf(trace[1]), RevKeyOf(trace[1])} /\ Registered(registry[key])

\* ------------------------------------------------------------------------
\* C12: update replaces, never accumulates
\* ------------------------------------------------------------------------
\* the contacts the get_collision calls tr[k..] returned, in call order
RECURSIVE Returned(_, _)
Returned(tr, k) ==
    IF k > Len(tr) THEN <<>>
    ELSE IF tr[k].col = None THEN Returned(tr, k + 1)
    ELSE <<[tr[k].col EXCEPT !.world = world]>> \o Returned(tr, k + 1)

\* the last call on the phase ran update
RanUpdate == meth \in {"update", "__call__"}

\* C12: update replaces, never accumulates. After any sequence of update
\* calls the list a broad phase holds is the sweep of the last input alone
\* (pairs of bodies of that input, none twice, nothing of earlier calls or of
\* the constructor's data), the list a narrow phase holds is the contacts of
\* the calls made for the last input alone, and the caller's list is as it
\* was handed over.
C12_UpdateReplaces ==
    /\ (kind # "Narrow" /\ updated) =>
          /\ data = Sweep(kind, body, L).data
          /\ \A i \in 1..Len(data) : {data[i][1], data[i][2]} \subseteq Elems(L)
          /\ Cardinality(PairSet(data)) = Len(data)
          /\ arg = L
    /\ (kind = "Narrow" /\ op = "update") =>
          /\ Len(trace) = Len(broad_cols)
          /\ \A k \in 1..Len(trace) : <<trace[k].A, trace[k].B>> = broad_cols[k]
          /\ ndata = Returned(trace, 1)
          /\ RanUpdate => arg = broad_cols

\* C12 witness: a broad phase whose bodies 1 and 2 overlap holds no pair
\* after update on the list of body 1 alone, and the list is still that list.
C12_Witness ==
    /\ kind = "AABB"
    /\ updated
    /\ meth = "update"
    /\ VolumesOverlap(kind, body[1], body[2])
    /\ L = <<1>>
    /\ arg = <<1>>
    /\ data = <<>>

\* ------------------------------------------------------------------------
\* C13: objects()
\* ------------------------------------------------------------------------
\* the bodies that are first or second member of an element of the held list
Members ==
    IF kind = "Narrow"
    THEN {ndata[i].A : i \in 1..Len(ndata)} \cup {ndata[i].B : i \in 1..Len(ndata)}
    ELSE {data[i][1] : i \in 1..Len(data)} \cup {data[i][2] : i \in 1..Len(data)}

\* the list d back to front
Reverse(d) == [i \in 1..Len(d) |-> d[Len(d) + 1 - i]]

\* C13: objects() returns exactly the set of bodies that are first or second
\* member of some element of the current result list, and the same set for the
\* list taken in the opposite order.
C13_Objects ==
    meth = "objects" =>
        /\ ret.objs = Members
        /\ ret.objs = objects(Reverse(Held), 1, {})

\* C13 witness: objects() on a broad phase holding two pairs that share a
\* body returned three bodies.
C13_Witness ==
    /\ meth = "objects"
    /\ kind = "CBB"
    /\ Len(data) = 2
    /\ Cardinality(ret.objs) = 3

\* ------------------------------------------------------------------------
\* C14: phase(input)
\* ------------------------------------------------------------------------
\* C14: calling a phase as a function. A step phase(input) takes the phase
\* from its prior state to the state update(input) takes it to (the result
\* list, and for the narrow phase the dispatch table), and returns the phase
\* object itself.
C14_Step ==
    meth' = "__call__" =>
        /\ ret' = Self
        /\ kind # "Narrow" =>
              /\ data' = Sweep(kind, body, arg').data
              /\ UNCHANGED <<kind, body, world, ndata, registry>>
        /\ kind = "Narrow" =>
              LET r == NarrowPhase_update(registry, arg', world)
              IN  /\ ndata' = r.cols
                  /\ registry' = r.reg
                  /\ raised' = r.exc
                  /\ UNCHANGED <<kind, body, world, data>>

C14_CallIsUpdate == [][C14_Step]_vars

\* C14 witness: a narrow phase called on two pairs holds two contacts and
\* returned itself; its dispatch table has a wrapper registered on the way.
C14_Witness ==
    /\ meth = "__call__"
    /\ ret = Self
    /\ kind = "Narrow"
    /\ Len(arg) = 2
    /\ Len(ndata) = 2
    /\ \E k \in TypePairs : registry[k].tag = "inverse"

\* ------------------------------------------------------------------------
\* C15: get_groups
\* ------------------------------------------------------------------------
\* bodies of the contacts cols
BodiesOf(cols) ==
    {cols[i].A : i \in 1..Len(cols)} \cup {cols[i].B : i \in 1..Len(cols)}

\* the bodies a body of the set g is in contact with, and g
Linked(cols, g) ==
    g \cup {cols[i].A : i \in {j \in 1..Len(cols) : cols[j].B \in g}}
      \cup {cols[i].B : i \in {j \in 1..Len(cols) : cols[j].A \in g}}

\* the bodies linked to those of g through a chain of contacts
RECURSIVE Group(_, _)
Group(cols, g) ==
    IF Linked(cols, g) = g THEN g ELSE Group(cols, Linked(cols, g))

\* maximal connected components of the contacts cols
Components(cols) == {Group(cols, {b}) : b \in BodiesOf(cols)}

\* C15: group extraction. get_groups(cols) returns the maximal connected
\* components of the contacts cols as groups of bodies.
C15_GroupExtraction ==
    meth = "get_groups" => ret = [groups |-> Components(arg)]

\* ------------------------------------------------------------------------
\* C19: concurrent update
\* ------------------------------------------------------------------------
\* both threads have returned from update
BothDone == \A t \in Threads : thr[t].pc = "done"

\* what update on the list of thread t yields when it runs alone
Alone(t) == Sweep(kind, body, thr[t].L).data

====
